---------------------------- MODULE Spec2Model ----------------------------
(***************************************************************************)
(* FlowState v1.1: the device synchronization commands of                  *)
(* gui/src-tauri/src/lib.rs (git_init, git_status, git_sync,               *)
(* git_set_remote, git_clone, git_history) and the sync_status /           *)
(* sync_history store of gui/src-tauri/src/database.rs.                    *)
(*                                                                         *)
(* The version-control client is an external process.  Its effect on the   *)
(* working tree and the repository is modelled as git behaves: objects are *)
(* never deleted, `commit` moves HEAD (and the checked-out branch),        *)
(* `pull --rebase` refuses a dirty tree, fast-forwards, replays the local  *)
(* commits on the remote tip, or stops at the first commit that changes a  *)
(* file the remote changed too, leaving HEAD detached on the remote tip.   *)
(* Every spawned command may also fail to start or exit non-zero.          *)
(***************************************************************************)
EXTENDS Integers, Sequences, FiniteSets, TLC

\* ------------------------------------------------------------------ bounds
NumCallers == 2
MaxVer == 2
MaxCommits == 3
MaxEdits == 2
MaxRemotePushes == 1
MaxHistory == 2
MaxDevices == 2
NumProjects == 2
MaxAttachments == 3
MaxLocations == 2
MaxExtractions == 1

\* ------------------------------------------------------------ constants
\* Content of the ignore-list git_init writes (lib.rs:854).
GeneratedIgnore == 1

Callers == 1..NumCallers
Files == {"db", "gitignore"}
\* 0 is "the file does not exist".
Content == 0..MaxVer
Urls == {"u1", "u2"}
NoUrl == "none"
EmptyTree == [f \in Files |-> 0]

VARIABLES
    \* the working tree at the data path
    wt,          \* [Files -> Content]
    \* the repository under <path>/.git
    gitDir,      \* whether <path>/.git exists
    index,       \* the staged snapshot
    unmerged,    \* files the index holds as unmerged (a stopped rebase)
    commits,     \* all commit objects, by id: <<[parent, tree]>>
    localObjs,   \* ids of the commit objects in the local object store
    head,        \* HEAD (0: no commit yet)
    branch,      \* refs/heads/main (0: unborn)
    rebasing,    \* a rebase stopped on a conflict is in progress
    remoteUrl,   \* `remote get-url origin`, NoUrl when not configured
    \* the remote repository
    remoteHead,  \* its main branch (0: none)
    remotePushes,
    edits,       \* number of edits of the working tree so far
    serial,      \* the shell runs one command at a time
    \* the structured-record store behind AppState.db
    sync_status, \* rows of table sync_status, in rowid order
    sync_history,\* rows of table sync_history, in rowid order
    poisoned,    \* the Mutex<Database> is poisoned
    db_lock,     \* the caller that holds the Mutex<Database> (0: free)
    nextDevice,  \* number of device ids (uuid v4) drawn so far
    \* each caller's command in flight
    pc, op, result, has_changes, cmds, made, pre,
    failed,      \* commands of the git_sync in flight that did not run to success
    \* the attachment store
    fs,          \* the files outside the repository model: path -> content
    bundleDirs,  \* projects whose attachments directory exists
    attachments, \* rows of table attachments: id -> row
    next_id,     \* the rowid the next INSERT INTO attachments takes
    last,        \* the latest attachment command and what it did
    content_locations, \* rows of table content_locations, in rowid order
    extractions, \* rows of table extractions, in rowid order
    att          \* each caller's attach_file in flight

gitVars == <<wt, gitDir, index, unmerged, commits, localObjs, head, branch,
             rebasing, remoteUrl, remoteHead, remotePushes>>
dbVars == <<sync_status, sync_history, poisoned, nextDevice, db_lock>>
callVars == <<pc, op, result, has_changes, cmds, made, pre, failed>>
envVars == <<edits, serial>>
attVars == <<fs, bundleDirs, attachments, next_id, last, content_locations,
             extractions, att>>
vars == <<gitVars, dbVars, callVars, envVars, attVars>>

\* ------------------------------------------------------------- git model
TreeOf(id) == IF id = 0 THEN EmptyTree ELSE commits[id].tree

RECURSIVE Ancestors(_)
\* The commit and all it descends from (histories are linear).
Ancestors(id) == IF id = 0 THEN {} ELSE {id} \cup Ancestors(commits[id].parent)

RECURSIVE Chain(_, _)
\* The commits of `id` that are not in `stop`, oldest first.
Chain(id, stop) ==
    IF id = 0 \/ id \in stop THEN <<>>
    ELSE Append(Chain(commits[id].parent, stop), id)

\* Paths `git status --porcelain` prints one line for.
PorcelainPaths ==
    {f \in Files : f \in unmerged \/ TreeOf(head)[f] # index[f] \/ index[f] # wt[f]}

PorcelainLines == Cardinality(PorcelainPaths)

\* What `git commit` has to commit.
Staged == {f \in Files : TreeOf(head)[f] # index[f]}

NoCall == [ok |-> FALSE, status |-> "none"]
NoPre == [gitDir |-> FALSE, head |-> 0, dirty |-> FALSE, remote |-> FALSE,
          nhist |-> 0, clean |-> FALSE]

\* The state a command finds when it is invoked.
Snapshot ==
    [gitDir |-> gitDir, head |-> head, dirty |-> wt # TreeOf(head),
     remote |-> remoteUrl # NoUrl, nhist |-> Len(sync_history),
     clean |-> PorcelainLines = 0]


\* ------------------------------------------------ files of the attachments
Projects == 1..NumProjects

\* Files a caller may name as the source of an attachment: two with the same
\* file name in different directories, one whose name looks like a generated
\* one, one without extension that does not exist.
Sources ==
    {[dir |-> <<"in">>, stem |-> "a", ext |-> "txt"],
     [dir |-> <<"dl">>, stem |-> "a", ext |-> "txt"],
     [dir |-> <<"in">>, stem |-> "a_1", ext |-> "txt"],
     [dir |-> <<"in">>, stem |-> "gone", ext |-> ""]}

\* Path::file_name of a source: the stem and the extension it splits into.
\* The source each thread ingests: files of the same name in two directories.
SourceOf(c) ==
    [dir |-> IF c = 1 THEN <<"in">> ELSE <<"dl">>, stem |-> "a", ext |-> "txt"]

FileName(src) == IF src.ext = "" THEN src.stem ELSE src.stem \o "." \o src.ext

SourcePath(src) == [dir |-> src.dir, name |-> FileName(src)]

NoLast == [op |-> "none"]

NoAttach == [project_id |-> 0]

InitAttachments ==
    /\ fs = [p \in {SourcePath(src) : src \in {x \in Sources : x.stem # "gone"}} |->
               IF p.dir = <<"dl">> THEN 2 ELSE IF p.name = "a.txt" THEN 1 ELSE 3]
    /\ bundleDirs = {}
    /\ attachments = <<>>
    /\ next_id = 1
    /\ last = NoLast
    /\ content_locations = <<>>
    /\ extractions = <<>>
    /\ att = [c \in Callers |-> NoAttach]

AllIdle == \A c \in Callers : pc[c] = "idle"

Init ==
    /\ wt = [f \in Files |-> IF f = "db" THEN 1 ELSE 0]
    /\ gitDir = FALSE
    /\ index = EmptyTree
    /\ unmerged = {}
    /\ commits = <<>>
    /\ localObjs = {}
    /\ head = 0
    /\ branch = 0
    /\ rebasing = FALSE
    /\ remoteUrl = NoUrl
    /\ remoteHead = 0
    /\ remotePushes = 0
    /\ edits = 0
    /\ serial = TRUE
    /\ sync_status = <<>>
    /\ sync_history = <<>>
    /\ poisoned = FALSE
    /\ db_lock = 0
    /\ nextDevice = 0
    /\ pc = [c \in Callers |-> "idle"]
    /\ op = [c \in Callers |-> "none"]
    /\ result = [c \in Callers |-> NoCall]
    /\ has_changes = [c \in Callers |-> FALSE]
    /\ cmds = [c \in Callers |-> <<>>]
    /\ made = [c \in Callers |-> 0]
    /\ pre = [c \in Callers |-> NoPre]
    /\ failed = [c \in Callers |-> {}]
    /\ InitAttachments

\* A command starts: remember what it found.  When commands run one at a time
\* it is immaterial which caller invokes them.
Invoke(c, name, next) ==
    /\ pc[c] = "idle"
    /\ serial => (AllIdle /\ c = 1)
    /\ pc' = [pc EXCEPT ![c] = next]
    /\ op' = [op EXCEPT ![c] = name]
    /\ pre' = [pre EXCEPT ![c] = Snapshot]
    /\ made' = [made EXCEPT ![c] = 0]
    /\ failed' = [failed EXCEPT ![c] = {}]
    /\ UNCHANGED <<envVars, attVars>>

\* A command returns `r` to its caller.
Finish(c, r) ==
    /\ pc' = [pc EXCEPT ![c] = "done"]
    /\ result' = [result EXCEPT ![c] = r]

Issue(c, cmd) == cmds' = [cmds EXCEPT ![c] = Append(@, cmd)]

\* The call has spawned `cmd`.
Issued(c, cmd) == \E i \in 1..Len(cmds[c]) : cmds[c][i] = cmd

Fails(c, cmd) == failed' = [failed EXCEPT ![c] = @ \cup {cmd}]

Err(msg) == [ok |-> FALSE, status |-> msg]


\* ------------------------------------------------- git as the code runs it
\* `git add .` that ran to success: the index takes the working tree.
GitAddEffect ==
    /\ index' = wt
    /\ unmerged' = {}
    /\ UNCHANGED <<wt, gitDir, commits, localObjs, head, branch, rebasing,
                   remoteUrl, remoteHead, remotePushes>>

\* `git commit -m <msg>` can succeed: something is staged (and the model has
\* room for one more commit object).
CanCommit == Staged # {} /\ unmerged = {} /\ Len(commits) < MaxCommits

\* `git commit` that ran to success: a new commit on HEAD; the branch follows
\* unless HEAD is detached by a stopped rebase.
GitCommitEffect ==
    LET new == Len(commits) + 1 IN
    /\ commits' = Append(commits, [parent |-> head, tree |-> index])
    /\ localObjs' = localObjs \cup {new}
    /\ head' = new
    /\ branch' = IF rebasing THEN branch ELSE new
    /\ UNCHANGED <<wt, gitDir, index, unmerged, rebasing, remoteUrl,
                   remoteHead, remotePushes>>

TreeIn(cs, id) == IF id = 0 THEN EmptyTree ELSE cs[id].tree

RECURSIVE Replay(_, _, _)
\* `git rebase`: replay the commits `todo` (oldest first) on `onto`.  A commit
\* whose change the remote already has is dropped; the replay stops at the
\* first commit changing a file that `onto` changed differently (clash).
Replay(todo, onto, cs) ==
    IF todo = <<>>
    THEN [head |-> onto, commits |-> cs, clash |-> {}, tree |-> TreeIn(cs, onto)]
    ELSE
      LET k == Head(todo)
          base == TreeIn(cs, cs[k].parent)
          theirs == cs[k].tree
          ours == TreeIn(cs, onto)
          clash == {f \in Files : base[f] # theirs[f] /\ base[f] # ours[f]
                                   /\ ours[f] # theirs[f]}
          merged == [f \in Files |-> IF base[f] # theirs[f] THEN theirs[f] ELSE ours[f]]
          stopped == [f \in Files |-> IF f \in clash THEN ours[f] ELSE merged[f]]
      IN IF clash # {}
         THEN [head |-> onto, commits |-> cs, clash |-> clash, tree |-> stopped]
         ELSE IF merged = ours THEN Replay(Tail(todo), onto, cs)
         ELSE Replay(Tail(todo), Len(cs) + 1,
                     Append(cs, [parent |-> onto, tree |-> merged]))

\* What `git pull --rebase origin main` would do once it reaches the remote.
Rebased ==
    IF remoteHead \in Ancestors(head)
    THEN [head |-> head, commits |-> commits, clash |-> {}, tree |-> TreeOf(head)]
    ELSE Replay(Chain(head, Ancestors(remoteHead)), remoteHead, commits)

\* The pull can run: the remote has a main branch, the tree is clean and no
\* rebase is in progress (git refuses otherwise, with no conflict message).
CanPull ==
    /\ gitDir /\ remoteUrl # NoUrl /\ remoteHead # 0
    /\ PorcelainLines = 0 /\ ~rebasing
    /\ Len(Rebased.commits) <= MaxCommits

PullConflicts == CanPull /\ Rebased.clash # {}

\* The pull ran and succeeded: up to date, fast-forward or a clean rebase.
GitPullOkEffect ==
    LET r == Rebased IN
    /\ commits' = r.commits
    /\ localObjs' = localObjs \cup Ancestors(remoteHead)
                      \cup (1..Len(r.commits) \ 1..Len(commits))
    /\ head' = r.head
    /\ branch' = r.head
    /\ index' = r.tree
    /\ wt' = r.tree
    /\ UNCHANGED <<gitDir, unmerged, rebasing, remoteUrl, remoteHead, remotePushes>>

\* The pull stopped on a conflict: HEAD is left detached on the commit the
\* replay reached, refs/heads/main still names the local commit, the clashing
\* files are unmerged and the working tree holds the remote's version of them.
GitPullConflictEffect ==
    LET r == Rebased IN
    /\ commits' = r.commits
    /\ localObjs' = localObjs \cup Ancestors(remoteHead)
                      \cup (1..Len(r.commits) \ 1..Len(commits))
    /\ head' = r.head
    /\ rebasing' = TRUE
    /\ unmerged' = r.clash
    /\ index' = r.tree
    /\ wt' = r.tree
    /\ UNCHANGED <<gitDir, branch, remoteUrl, remoteHead, remotePushes>>

\* `git push origin main` can succeed: main exists and fast-forwards the remote.
CanPush ==
    /\ gitDir /\ remoteUrl # NoUrl /\ branch # 0
    /\ (remoteHead = 0 \/ remoteHead \in Ancestors(branch))

GitPushEffect ==
    /\ remoteHead' = branch
    /\ UNCHANGED <<wt, gitDir, index, unmerged, commits, localObjs, head,
                   branch, rebasing, remoteUrl, remotePushes>>


\* ----------------------------------------------------------------- git_sync
\* A git_sync whose .git check is missing.
SyncCheckUnguarded(c) ==
    /\ Invoke(c, "sync", "add")
    /\ result' = [result EXCEPT ![c] = NoCall]
    /\ has_changes' = [has_changes EXCEPT ![c] = FALSE]
    /\ cmds' = [cmds EXCEPT ![c] = <<>>]
    /\ UNCHANGED <<gitVars, dbVars>>

\* lib.rs:956-963: the .git check.
SyncCheck(c) ==
    /\ Invoke(c, "sync", IF gitDir THEN "add" ELSE "done")
    /\ result' = [result EXCEPT ![c] =
                    IF gitDir THEN NoCall ELSE Err("not_initialized")]
    /\ has_changes' = [has_changes EXCEPT ![c] = FALSE]
    /\ cmds' = [cmds EXCEPT ![c] = <<>>]
    /\ UNCHANGED <<gitVars, dbVars>>

\* lib.rs:965-974: git add .
SyncAdd(c) ==
    /\ pc[c] = "add"
    /\ Issue(c, "add")
    /\ \/ /\ GitAddEffect
          /\ pc' = [pc EXCEPT ![c] = "status"]
          /\ UNCHANGED <<result, failed>>
       \/ /\ Finish(c, Err("git add failed"))
          /\ Fails(c, "add")
          /\ UNCHANGED gitVars
    /\ UNCHANGED <<dbVars, op, has_changes, made, pre, envVars, attVars>>

\* A git_sync that skips the commit step.
SyncStatusNoCommit(c) ==
    /\ pc[c] = "status"
    /\ Issue(c, "status")
    /\ has_changes' = [has_changes EXCEPT ![c] = PorcelainLines > 0]
    /\ pc' = [pc EXCEPT ![c] = "remote"]
    /\ UNCHANGED <<gitVars, dbVars, op, made, pre, envVars, attVars, result, failed>>

\* A git_sync that commits whatever `git status` prints.
SyncStatusAlwaysCommits(c) ==
    /\ pc[c] = "status"
    /\ Issue(c, "status")
    /\ has_changes' = [has_changes EXCEPT ![c] = TRUE]
    /\ pc' = [pc EXCEPT ![c] = "commit"]
    /\ UNCHANGED <<gitVars, dbVars, op, made, pre, envVars, attVars, result, failed>>

\* lib.rs:976-983: git status --porcelain; only a failure to spawn is an error,
\* the exit status is not looked at, so a failed run reads as "no changes".
SyncStatus(c) ==
    /\ pc[c] = "status"
    /\ Issue(c, "status")
    /\ \/ \E ran \in BOOLEAN :
            LET dirty == ran /\ PorcelainLines > 0 IN
            /\ has_changes' = [has_changes EXCEPT ![c] = dirty]
            /\ pc' = [pc EXCEPT ![c] = IF dirty THEN "commit" ELSE "remote"]
            /\ failed' = [failed EXCEPT ![c] = IF ran THEN @ ELSE @ \cup {"status"}]
            /\ UNCHANGED result
       \/ /\ Finish(c, Err("Failed to check status"))
          /\ Fails(c, "status")
          /\ UNCHANGED has_changes
    /\ UNCHANGED <<gitVars, dbVars, op, made, pre, envVars, attVars>>

\* lib.rs:985-1000: git commit -m <message>, only when has_changes.
SyncCommit(c) ==
    /\ pc[c] = "commit"
    /\ Issue(c, "commit")
    /\ \/ /\ CanCommit
          /\ GitCommitEffect
          /\ made' = [made EXCEPT ![c] = Len(commits) + 1]
          /\ pc' = [pc EXCEPT ![c] = "remote"]
          /\ UNCHANGED <<result, failed>>
       \/ /\ Finish(c, Err("git commit failed"))
          /\ Fails(c, "commit")
          /\ UNCHANGED <<gitVars, made>>
    /\ UNCHANGED <<dbVars, op, has_changes, pre, envVars, attVars>>

\* A local-only result whose committed flag is not the one computed.
CommittedLocalNever(c) ==
    [ok |-> TRUE, status |-> "committed_local", committed |-> FALSE]

\* lib.rs:1050-1054: no remote configured.
CommittedLocal(c) ==
    [ok |-> TRUE, status |-> "committed_local", committed |-> has_changes[c]]

\* A remote check that goes on to pull whatever it finds.
SyncRemoteAlwaysPulls(c) ==
    /\ pc[c] = "remote"
    /\ Issue(c, "remote get-url")
    /\ pc' = [pc EXCEPT ![c] = "pull"]
    /\ UNCHANGED <<gitVars, dbVars, op, has_changes, made, pre, envVars, attVars, result, failed>>

\* lib.rs:1002-1010 and 1050-1054: git remote get-url origin; a run that
\* fails for any reason reads as "no remote".
SyncRemote(c) ==
    /\ pc[c] = "remote"
    /\ Issue(c, "remote get-url")
    /\ \E ran \in BOOLEAN :
         LET has_remote == ran /\ remoteUrl # NoUrl IN
         /\ IF has_remote
            THEN pc' = [pc EXCEPT ![c] = "pull"] /\ UNCHANGED result
            ELSE Finish(c, CommittedLocal(c))
         /\ failed' = [failed EXCEPT ![c] = IF ran THEN @ ELSE @ \cup {"remote get-url"}]
    /\ UNCHANGED <<gitVars, dbVars, op, has_changes, made, pre, envVars, attVars>>

Conflict(c) ==
    [ok |-> TRUE, status |-> "conflict", committed |-> has_changes[c]]

\* A pull step that goes on to push after a conflict.
SyncPullNoStop(c) ==
    /\ pc[c] = "pull"
    /\ Issue(c, "pull")
    /\ \/ /\ CanPull /\ ~PullConflicts
          /\ GitPullOkEffect
       \/ /\ PullConflicts
          /\ GitPullConflictEffect
    /\ pc' = [pc EXCEPT ![c] = "push"]
    /\ UNCHANGED <<dbVars, op, has_changes, made, pre, envVars, attVars, result, failed>>

\* A pull step whose failure fails the call.
SyncPullFailsCall(c) ==
    /\ pc[c] = "pull"
    /\ Issue(c, "pull")
    /\ \/ /\ CanPull /\ ~PullConflicts
          /\ GitPullOkEffect
          /\ pc' = [pc EXCEPT ![c] = "push"]
          /\ UNCHANGED <<result, failed>>
       \/ /\ PullConflicts
          /\ GitPullConflictEffect
          /\ Finish(c, Conflict(c))
          /\ UNCHANGED failed
       \/ /\ Finish(c, Err("git pull failed"))
          /\ Fails(c, "pull")
          /\ UNCHANGED gitVars
    /\ UNCHANGED <<dbVars, op, has_changes, made, pre, envVars, attVars>>

\* lib.rs:1012-1031: git pull --rebase origin main.  Only a non-zero exit
\* whose stderr mentions a conflict ends the call; any other failure is
\* ignored.
SyncPull(c) ==
    /\ pc[c] = "pull"
    /\ Issue(c, "pull")
    /\ \/ /\ CanPull /\ ~PullConflicts
          /\ GitPullOkEffect
          /\ pc' = [pc EXCEPT ![c] = "push"]
          /\ UNCHANGED <<result, failed>>
       \/ /\ PullConflicts
          /\ GitPullConflictEffect
          /\ Finish(c, Conflict(c))
          /\ UNCHANGED failed
       \/ /\ pc' = [pc EXCEPT ![c] = "push"]
          /\ Fails(c, "pull")
          /\ UNCHANGED <<gitVars, result>>
    /\ UNCHANGED <<dbVars, op, has_changes, made, pre, envVars, attVars>>

Synced(c, pushed) ==
    [ok |-> TRUE, status |-> "synced", committed |-> has_changes[c],
     pushed |-> pushed]

\* A push step whose failure fails the call.
SyncPushFailsCall(c) ==
    /\ pc[c] = "push"
    /\ Issue(c, "push")
    /\ \/ /\ CanPush
          /\ GitPushEffect
          /\ Finish(c, Synced(c, TRUE))
          /\ UNCHANGED failed
       \/ /\ Finish(c, Err("git push failed"))
          /\ Fails(c, "push")
          /\ UNCHANGED gitVars
    /\ UNCHANGED <<dbVars, op, has_changes, made, pre, envVars, attVars>>

\* A push step that tries once more when the push fails.
SyncPushRetries(c) ==
    /\ pc[c] = "push"
    /\ Issue(c, "push")
    /\ \/ /\ CanPush
          /\ GitPushEffect
          /\ Finish(c, Synced(c, TRUE))
          /\ UNCHANGED failed
       \/ /\ IF Issued(c, "push")
             THEN Finish(c, Synced(c, FALSE))
             ELSE UNCHANGED <<pc, result>>
          /\ Fails(c, "push")
          /\ UNCHANGED gitVars
    /\ UNCHANGED <<dbVars, op, has_changes, made, pre, envVars, attVars>>

\* lib.rs:1033-1047: git push origin main; a failure is pushed = false.
SyncPush(c) ==
    /\ pc[c] = "push"
    /\ Issue(c, "push")
    /\ \/ /\ CanPush
          /\ GitPushEffect
          /\ Finish(c, Synced(c, TRUE))
          /\ UNCHANGED failed
       \/ /\ Finish(c, Synced(c, FALSE))
          /\ Fails(c, "push")
          /\ UNCHANGED gitVars
    /\ UNCHANGED <<dbVars, op, has_changes, made, pre, envVars, attVars>>

git_sync(c) ==
    \/ SyncCheck(c)
    \/ SyncAdd(c)
    \/ SyncStatus(c)
    \/ SyncCommit(c)
    \/ SyncRemote(c)
    \/ SyncPull(c)
    \/ SyncPush(c)

\* The caller takes the result; the next command may be invoked.
Return(c) ==
    /\ pc[c] = "done"
    /\ pc' = [pc EXCEPT ![c] = "idle"]
    /\ op' = [op EXCEPT ![c] = "none"]
    /\ result' = [result EXCEPT ![c] = NoCall]
    /\ has_changes' = [has_changes EXCEPT ![c] = FALSE]
    /\ cmds' = [cmds EXCEPT ![c] = <<>>]
    /\ made' = [made EXCEPT ![c] = 0]
    /\ pre' = [pre EXCEPT ![c] = NoPre]
    /\ failed' = [failed EXCEPT ![c] = {}]
    /\ UNCHANGED <<gitVars, dbVars, envVars, attVars>>


\* ----------------------------------------------------------------- git_init
\* A git_init that writes the ignore-list again on an initialized path.
InitAlreadyRewrites(c) ==
    /\ gitDir
    /\ result' = [result EXCEPT ![c] = [ok |-> TRUE, status |-> "already_initialized"]]
    /\ cmds' = [cmds EXCEPT ![c] = <<>>]
    /\ wt' = [wt EXCEPT !["gitignore"] = GeneratedIgnore]
    /\ UNCHANGED <<gitDir, index, unmerged, commits, localObjs, head, branch,
                   rebasing, remoteUrl, remoteHead, remotePushes>>

\* lib.rs:832-839: .git exists already.
InitAlready(c) ==
    /\ gitDir
    /\ result' = [result EXCEPT ![c] = [ok |-> TRUE, status |-> "already_initialized"]]
    /\ cmds' = [cmds EXCEPT ![c] = <<>>]
    /\ UNCHANGED gitVars

\* lib.rs:841-869: `git init` fails, or it succeeds and .gitignore cannot be
\* written.
InitFails(c) ==
    /\ ~gitDir
    /\ cmds' = [cmds EXCEPT ![c] = <<"init">>]
    /\ \/ /\ result' = [result EXCEPT ![c] = Err("git init failed")]
          /\ UNCHANGED gitVars
       \/ /\ result' = [result EXCEPT ![c] = Err("Failed to create .gitignore")]
          /\ gitDir' = TRUE
          /\ UNCHANGED <<wt, index, unmerged, commits, localObjs, head, branch,
                         rebasing, remoteUrl, remoteHead, remotePushes>>

\* lib.rs:841-885: `git init` and the write of .gitignore succeed; the results
\* of the initial `git add .` and `git commit` are dropped (let _ =).
InitFresh(c) ==
    /\ ~gitDir
    /\ \E added \in BOOLEAN, committed \in BOOLEAN :
         LET new == Len(commits) + 1 IN
         /\ committed => (added /\ Len(commits) < MaxCommits)
         /\ gitDir' = TRUE
         /\ wt' = [wt EXCEPT !["gitignore"] = GeneratedIgnore]
         /\ index' = (IF added THEN wt' ELSE index)
         /\ commits' = (IF committed
                        THEN Append(commits, [parent |-> 0, tree |-> index'])
                        ELSE commits)
         /\ localObjs' = (IF committed THEN localObjs \cup {new} ELSE localObjs)
         /\ head' = (IF committed THEN new ELSE head)
         /\ branch' = (IF committed THEN new ELSE branch)
    /\ result' = [result EXCEPT ![c] = [ok |-> TRUE, status |-> "initialized"]]
    /\ cmds' = [cmds EXCEPT ![c] = <<"init", "add", "commit">>]
    /\ UNCHANGED <<unmerged, rebasing, remoteUrl, remoteHead, remotePushes>>

\* lib.rs:829-886.
git_init(c) ==
    /\ Invoke(c, "init", "done")
    /\ (InitAlready(c) \/ InitFails(c) \/ InitFresh(c))
    /\ UNCHANGED <<dbVars, has_changes>>

\* --------------------------------------------------------------- git_status
\* lib.rs:889-953 when every command it spawns runs normally.
StatusReport ==
    [ok |-> TRUE, status |-> "status", initialized |-> TRUE,
     pending_changes |-> PorcelainLines, remote_url |-> remoteUrl,
     last_commit |-> head]

\* A failed `git status` prints nothing (0 lines); a failed `remote get-url`
\* or `log -1` reads as "none" (lib.rs:908-943).
StatusOutcomes ==
    IF ~gitDir THEN {[ok |-> TRUE, status |-> "not_initialized", initialized |-> FALSE]}
    ELSE {Err("Failed to run git status")} \cup
         {[StatusReport EXCEPT !.pending_changes = p, !.remote_url = u, !.last_commit = l] :
            p \in {PorcelainLines, 0}, u \in {remoteUrl, NoUrl}, l \in {head, 0}}

\* A status that refreshes the index from the working tree.
git_status_staging(c) ==
    /\ Invoke(c, "status", "done")
    /\ \E r \in StatusOutcomes : result' = [result EXCEPT ![c] = r]
    /\ cmds' = [cmds EXCEPT ![c] = IF gitDir THEN <<"status", "remote get-url", "log">> ELSE <<>>]
    /\ index' = (IF gitDir THEN wt ELSE index)
    /\ UNCHANGED <<wt, gitDir, unmerged, commits, localObjs, head, branch,
                   rebasing, remoteUrl, remoteHead, remotePushes>>
    /\ UNCHANGED <<dbVars, has_changes>>

git_status(c) ==
    /\ Invoke(c, "status", "done")
    /\ \E r \in StatusOutcomes : result' = [result EXCEPT ![c] = r]
    /\ cmds' = [cmds EXCEPT ![c] = IF gitDir THEN <<"status", "remote get-url", "log">> ELSE <<>>]
    /\ UNCHANGED <<gitVars, dbVars, has_changes>>

\* ----------------------------------------------------------- git_set_remote
\* A set_remote that reports "added" whatever it did.
git_set_remote_says_added(c, url) ==
    /\ Invoke(c, "set_remote", "done")
    /\ \E has_existing_remote \in {gitDir /\ remoteUrl # NoUrl, FALSE} :
         /\ cmds' = [cmds EXCEPT ![c] =
                       <<"remote get-url",
                         IF has_existing_remote THEN "remote set-url" ELSE "remote add">>]
         /\ \/ /\ gitDir
               /\ has_existing_remote <=> remoteUrl # NoUrl
               /\ remoteUrl' = url
               /\ result' = [result EXCEPT ![c] =
                    [ok |-> TRUE, status |-> "success", remote_url |-> url,
                     action |-> "added"]]
               /\ UNCHANGED <<wt, gitDir, index, unmerged, commits, localObjs,
                              head, branch, rebasing, remoteHead, remotePushes>>
            \/ /\ result' = [result EXCEPT ![c] = Err("git remote failed")]
               /\ UNCHANGED gitVars
    /\ UNCHANGED <<dbVars, has_changes>>

\* lib.rs:1058-1093: `remote set-url` when get-url succeeded, else `remote add`.
git_set_remote(c, url) ==
    /\ Invoke(c, "set_remote", "done")
    /\ \E has_existing_remote \in {gitDir /\ remoteUrl # NoUrl, FALSE} :
         /\ cmds' = [cmds EXCEPT ![c] =
                       <<"remote get-url",
                         IF has_existing_remote THEN "remote set-url" ELSE "remote add">>]
         /\ \/ /\ gitDir
               /\ has_existing_remote <=> remoteUrl # NoUrl
               /\ remoteUrl' = url
               /\ result' = [result EXCEPT ![c] =
                    [ok |-> TRUE, status |-> "success", remote_url |-> url,
                     action |-> IF has_existing_remote THEN "updated" ELSE "added"]]
               /\ UNCHANGED <<wt, gitDir, index, unmerged, commits, localObjs,
                              head, branch, rebasing, remoteHead, remotePushes>>
            \/ /\ result' = [result EXCEPT ![c] = Err("git remote failed")]
               /\ UNCHANGED gitVars
    /\ UNCHANGED <<dbVars, has_changes>>

\* ---------------------------------------------------------------- git_clone
\* lib.rs:1099-1103: the path exists and has an entry.
DirectoryNotEmpty == gitDir \/ \E f \in Files : wt[f] # 0

\* A clone that does not look at the target directory.
git_clone_unchecked(c, url) ==
    /\ Invoke(c, "clone", "done")
    /\ \/ /\ result' = [result EXCEPT ![c] = Err("git clone failed")]
          /\ cmds' = [cmds EXCEPT ![c] = <<"create_dir_all", "clone">>]
          /\ UNCHANGED gitVars
       \/ /\ gitDir' = TRUE
          /\ remoteUrl' = url
          /\ head' = remoteHead
          /\ branch' = remoteHead
          /\ localObjs' = Ancestors(remoteHead)
          /\ index' = TreeOf(remoteHead)
          /\ wt' = TreeOf(remoteHead)
          /\ result' = [result EXCEPT ![c] =
                          [ok |-> TRUE, status |-> "cloned", remote_url |-> url]]
          /\ cmds' = [cmds EXCEPT ![c] = <<"create_dir_all", "clone">>]
          /\ UNCHANGED <<unmerged, commits, rebasing, remoteHead, remotePushes>>
    /\ UNCHANGED <<dbVars, has_changes>>

\* lib.rs:1096-1126.  The target is refused when it exists and read_dir yields
\* an entry; a read_dir that fails reads as "empty" (unwrap_or(false)) and the
\* clone is attempted.  `git clone` itself fails on a target that is not empty.
git_clone(c, url) ==
    /\ Invoke(c, "clone", "done")
    /\ \E listed \in BOOLEAN :
         LET refused == DirectoryNotEmpty /\ listed IN
         \/ /\ refused
            /\ result' = [result EXCEPT ![c] = Err("Target directory is not empty")]
            /\ cmds' = [cmds EXCEPT ![c] = <<>>]
            /\ UNCHANGED gitVars
         \/ /\ ~refused
            /\ result' = [result EXCEPT ![c] = Err("Failed to create directory")]
            /\ cmds' = [cmds EXCEPT ![c] = <<"create_dir_all">>]
            /\ UNCHANGED gitVars
         \/ /\ ~refused
            /\ result' = [result EXCEPT ![c] = Err("git clone failed")]
            /\ cmds' = [cmds EXCEPT ![c] = <<"create_dir_all", "clone">>]
            /\ UNCHANGED gitVars
         \/ /\ ~refused /\ ~DirectoryNotEmpty
            /\ gitDir' = TRUE
            /\ remoteUrl' = url
            /\ head' = remoteHead
            /\ branch' = remoteHead
            /\ localObjs' = Ancestors(remoteHead)
            /\ index' = TreeOf(remoteHead)
            /\ wt' = TreeOf(remoteHead)
            /\ result' = [result EXCEPT ![c] =
                            [ok |-> TRUE, status |-> "cloned", remote_url |-> url]]
            /\ cmds' = [cmds EXCEPT ![c] = <<"create_dir_all", "clone">>]
            /\ UNCHANGED <<unmerged, commits, rebasing, remoteHead, remotePushes>>
    /\ UNCHANGED <<dbVars, has_changes>>

\* -------------------------------------------------------------- git_history
RECURSIVE LogFrom(_, _)
\* `git log -<n>`: the newest n commits of HEAD, newest first.
LogFrom(id, n) ==
    IF id = 0 \/ n = 0 THEN <<>>
    ELSE <<id>> \o LogFrom(commits[id].parent, n - 1)

\* lib.rs:1129-1163.
git_history(c, limit) ==
    /\ Invoke(c, "history", "done")
    /\ \/ /\ gitDir /\ head # 0
          /\ result' = [result EXCEPT ![c] =
                          [ok |-> TRUE, status |-> "history", entries |-> LogFrom(head, limit)]]
       \/ result' = [result EXCEPT ![c] = Err("git log failed")]
    /\ cmds' = [cmds EXCEPT ![c] = <<"log">>]
    /\ UNCHANGED <<gitVars, dbVars, has_changes>>

\* -------------------------------------------------------------- environment
\* The application (or the user) changes a file of the working tree.
EditFile(f, v) ==
    /\ serial => AllIdle
    /\ edits < MaxEdits
    /\ edits' = edits + 1
    /\ v # wt[f]
    /\ wt' = [wt EXCEPT ![f] = v]
    /\ UNCHANGED <<gitDir, index, unmerged, commits, localObjs, head, branch,
                   rebasing, remoteUrl, remoteHead, remotePushes>>
    /\ UNCHANGED <<dbVars, callVars, serial, attVars>>

\* Another device pushes a commit changing the database to the remote.
OtherDevicePush(v) ==
    /\ serial => AllIdle
    /\ remotePushes < MaxRemotePushes
    /\ Len(commits) < MaxCommits
    /\ v # TreeOf(remoteHead)["db"]
    /\ commits' = Append(commits, [parent |-> remoteHead,
                                   tree |-> [TreeOf(remoteHead) EXCEPT !["db"] = v]])
    /\ remoteHead' = Len(commits) + 1
    /\ remotePushes' = remotePushes + 1
    /\ UNCHANGED <<wt, gitDir, index, unmerged, localObjs, head, branch,
                   rebasing, remoteUrl>>
    /\ UNCHANGED <<dbVars, callVars, envVars, attVars>>


\* ---------------------------------------------- database.rs: sync_status
\* An Option<T> is the empty set or a singleton.
None == {}
Some(x) == {x}

\* The columns create_sync_status does not give take the table's defaults
\* (SyncStatus reads pending_changes and has_conflicts as non-null).
NewSyncStatus(device_name, device_id) ==
    [device_name |-> device_name, device_id |-> device_id, remote_url |-> None,
     last_sync_at |-> None, last_sync_commit |-> None, pending_changes |-> 0,
     has_conflicts |-> FALSE]

\* Whether table sync_status accepts one more row: it holds the install's
\* single row.
SyncStatusAccepts == Len(sync_status) = 0

\* database.rs:1295-1306: SELECT ... LIMIT 1.
db_get_sync_status(rows) == IF Len(rows) = 0 THEN None ELSE Some(rows[1])

\* database.rs:1308-1314: the rows after the INSERT.
db_create_sync_status(device_name, device_id) ==
    Append(sync_status, NewSyncStatus(device_name, device_id))

Pick(opt, old) == IF opt = None THEN old ELSE CHOOSE x \in opt : TRUE

\* An update that inserts a row when there is none (an upsert).
db_upsert_sync_status(u) ==
    IF Len(sync_status) = 0 THEN <<NewSyncStatus("laptop", 0)>> ELSE sync_status

\* database.rs:1316-1357: UPDATE sync_status SET <the supplied fields>, no
\* WHERE clause; no row is inserted.
db_update_sync_status(u) ==
    [i \in 1..Len(sync_status) |->
       [sync_status[i] EXCEPT
          !.remote_url = IF u.remote_url = None THEN @ ELSE u.remote_url,
          !.last_sync_at = IF u.last_sync_at = None THEN @ ELSE u.last_sync_at,
          !.last_sync_commit = IF u.last_sync_commit = None THEN @ ELSE u.last_sync_commit,
          !.pending_changes = Pick(u.pending_changes, @),
          !.has_conflicts = Pick(u.has_conflicts, @)]]

\* A log that keeps only the newest row.
db_log_replaces(row) == <<row>>

\* database.rs:1386-1407: the rows after the INSERT.
db_log_sync_operation(row) == Append(sync_history, row)

RECURSIVE Newest(_, _)
\* database.rs:1376-1384: ORDER BY created_at DESC LIMIT ?.
Newest(rows, limit) ==
    IF rows = <<>> \/ limit = 0 THEN <<>>
    ELSE <<rows[Len(rows)]>> \o Newest(SubSeq(rows, 1, Len(rows) - 1), limit - 1)

\* ------------------------------------------------- lib.rs: store commands
\* state.db.lock() fails on a poisoned mutex.
LockErr == Err("poisoned lock")
\* A panic while the guard is held unwinds through it and poisons the mutex.
Panicked == [ok |-> FALSE, status |-> "panic"]

\* A store command that does not take the mutex.
StoreCallNoLock(c, name) ==
    /\ Invoke(c, name, "done")
    /\ cmds' = [cmds EXCEPT ![c] = <<>>]
    /\ UNCHANGED <<gitVars, has_changes>>

\* state.db.lock(): the command runs once the mutex is free, and its guard is
\* dropped when it returns.
StoreCall(c, name) ==
    /\ Invoke(c, name, "done")
    /\ db_lock = 0
    /\ cmds' = [cmds EXCEPT ![c] = <<>>]
    /\ UNCHANGED <<gitVars, has_changes>>

\* lib.rs:1203-1207.
get_sync_status(c) ==
    /\ StoreCall(c, "get_sync_status")
    /\ result' = [result EXCEPT ![c] =
         IF poisoned THEN LockErr
         ELSE [ok |-> TRUE, status |-> "sync_status", row |-> db_get_sync_status(sync_status)]]
    /\ UNCHANGED dbVars

\* lib.rs:1209-1214.
init_sync_status(c, device_name) ==
    /\ StoreCall(c, "init_sync_status")
    /\ nextDevice < MaxDevices
    /\ IF poisoned
       THEN /\ result' = [result EXCEPT ![c] = LockErr]
            /\ UNCHANGED dbVars
       ELSE /\ nextDevice' = nextDevice + 1
            /\ IF SyncStatusAccepts
               THEN /\ sync_status' = db_create_sync_status(device_name, nextDevice')
                    /\ result' = [result EXCEPT ![c] =
                         [ok |-> TRUE, status |-> "sync_status",
                          row |-> db_get_sync_status(sync_status')]]
               ELSE /\ result' = [result EXCEPT ![c] = Err("constraint failed")]
                    /\ UNCHANGED sync_status
            /\ UNCHANGED <<sync_history, poisoned, db_lock>>

\* lib.rs:1216-1233.  With no row, get_sync_status() is Ok(None) and the
\* unwrap() of database.rs:1349/1356 panics with the lock held.
update_sync_status(c, u) ==
    /\ StoreCall(c, "update_sync_status")
    /\ IF poisoned
       THEN /\ result' = [result EXCEPT ![c] = LockErr]
            /\ UNCHANGED dbVars
       ELSE /\ sync_status' = db_update_sync_status(u)
            /\ IF db_get_sync_status(sync_status') = None
               THEN /\ poisoned' = TRUE
                    /\ result' = [result EXCEPT ![c] = Panicked]
               ELSE /\ result' = [result EXCEPT ![c] =
                         [ok |-> TRUE, status |-> "sync_status",
                          row |-> db_get_sync_status(sync_status')]]
                    /\ UNCHANGED poisoned
            /\ UNCHANGED <<sync_history, nextDevice, db_lock>>

\* lib.rs:1235-1240.
get_sync_history(c, limit) ==
    /\ StoreCall(c, "get_sync_history")
    /\ result' = [result EXCEPT ![c] =
         IF poisoned THEN LockErr
         ELSE [ok |-> TRUE, status |-> "sync_history", rows |-> Newest(sync_history, limit)]]
    /\ UNCHANGED dbVars

\* lib.rs:1242-1261.
log_sync_operation(c, row) ==
    /\ StoreCall(c, "log_sync_operation")
    /\ Len(sync_history) < MaxHistory
    /\ IF poisoned
       THEN /\ result' = [result EXCEPT ![c] = LockErr]
            /\ UNCHANGED dbVars
       ELSE /\ sync_history' = db_log_sync_operation(row)
            /\ result' = [result EXCEPT ![c] =
                 [ok |-> TRUE, status |-> "sync_history", rows |-> <<row>>]]
            /\ UNCHANGED <<sync_status, poisoned, nextDevice, db_lock>>

\* ------------------------------------------------- lib.rs: attachments
\* lib.rs:1298-1302: <data>/projects/project_<id>/attachments.
BundleDir(project_id) ==
    <<"projects", "project_" \o ToString(project_id), "attachments">>

Exists(path) == path \in DOMAIN fs

\* lib.rs:1317-1323: the name tried after `counter` - 1 collisions.
Numbered(src, counter) ==
    IF src.ext = "" THEN src.stem \o "_" \o ToString(counter)
    ELSE src.stem \o "_" \o ToString(counter) \o "." \o src.ext

RECURSIVE FreeName(_, _, _, _)
\* lib.rs:1313-1326: while dest_path.exists() try the next numbered name.
FreeName(dir, src, name, counter) ==
    IF ~Exists([dir |-> dir, name |-> name]) THEN name
    ELSE FreeName(dir, src, Numbered(src, counter), counter + 1)

\* A destination in one directory shared by all projects.
DestPathShared(src, project_id) ==
    [dir |-> <<"attachments">>,
     name |-> FreeName(<<"attachments">>, src, FileName(src), 1)]

\* lib.rs:1298-1326: the free name in the project's bundle directory.
DestPath(src, project_id) ==
    [dir |-> BundleDir(project_id),
     name |-> FreeName(BundleDir(project_id), src, FileName(src), 1)]

\* lib.rs:586-588: std::fs::metadata(..).ok(), None for a file that is not there.
FileSize(path) == IF Exists(path) THEN Some(fs[path]) ELSE None

\* lib.rs:591, 1283-1295: calculate_file_hash(..).ok(), the digest of the
\* content or None when the file cannot be opened or read.
Hashes(path) == (IF Exists(path) THEN {Some(fs[path])} ELSE {}) \cup {None}

NewAttachment(project_id, src, file_path, file_size, file_hash, is_external) ==
    [id |-> next_id, project_id |-> project_id, file_name |-> FileName(src),
     file_path |-> file_path,
     file_type |-> IF src.ext = "" THEN "unknown" ELSE src.ext,
     file_size |-> file_size, file_hash |-> file_hash,
     is_external |-> is_external]

\* database.rs:1052-1074: the rows after the INSERT.
db_create_attachment(row) == (row.id :> row) @@ attachments

\* database.rs:1127-1130: the rows after the DELETE.
db_delete_attachment(id) ==
    [x \in DOMAIN attachments \ {id} |-> attachments[x]]

\* What the store does to the rows that reference a deleted attachment: the
\* tables are created by database/schema.sql; no cascading engine is assumed.
OnDeleteCascade == FALSE

RECURSIVE Without(_, _)
\* The rows of a table that do not belong to attachment `id`.
Without(rows, id) ==
    IF Len(rows) = 0 THEN <<>>
    ELSE IF rows[1].attachment_id = id THEN Without(Tail(rows), id)
         ELSE <<rows[1]>> \o Without(Tail(rows), id)

\* The rows of a child table after DELETE FROM attachments WHERE id = ?.
Owned(rows, id) == IF OnDeleteCascade THEN Without(rows, id) ELSE rows

Attached(project_id, src, copy, ok, err, id, wrote) ==
    [op |-> "attach_file", project_id |-> project_id, src |-> src,
     copy |-> copy, delete_file |-> FALSE, ok |-> ok, err |-> err, id |-> id,
     wrote |-> wrote, unlink |-> None, unlinked |-> FALSE]

\* An ingestion that takes the file name as it is.
copy_overwriting(project_id, src, file_size, file_hash) ==
    LET dest == [dir |-> BundleDir(project_id), name |-> FileName(src)] IN
    /\ Exists(SourcePath(src))
    /\ bundleDirs' = bundleDirs \cup {project_id}
    /\ fs' = [x \in DOMAIN fs \cup {dest} |->
                IF x = dest THEN fs[SourcePath(src)] ELSE fs[x]]
    /\ attachments' = db_create_attachment(
          NewAttachment(project_id, src, dest, file_size, file_hash, FALSE))
    /\ next_id' = next_id + 1
    /\ last' = Attached(project_id, src, TRUE, TRUE, "", next_id, Some(dest))

\* lib.rs:594-616 with copy_to_bundle, copy_file_to_project_bundle
\* (1297-1332): the directory is created, a free name is chosen and the source
\* is copied to it; an error of either step ends the command with no row.
copy_file_to_project_bundle(project_id, src, file_size, file_hash) ==
    LET dest == DestPath(src, project_id) IN
    \/ /\ last' = Attached(project_id, src, TRUE, FALSE,
                           "Failed to create attachments directory", 0, None)
       /\ UNCHANGED <<fs, bundleDirs, attachments, next_id>>
    \/ /\ bundleDirs' = bundleDirs \cup {project_id}
       /\ last' = Attached(project_id, src, TRUE, FALSE, "Failed to copy file", 0, None)
       /\ UNCHANGED <<fs, attachments, next_id>>
    \/ /\ Exists(SourcePath(src))
       /\ bundleDirs' = bundleDirs \cup {project_id}
       /\ fs' = (dest :> fs[SourcePath(src)]) @@ fs
       /\ attachments' = db_create_attachment(
             NewAttachment(project_id, src, dest, file_size, file_hash, FALSE))
       /\ next_id' = next_id + 1
       /\ last' = Attached(project_id, src, TRUE, TRUE, "", next_id, Some(dest))

\* lib.rs:594-616 without copy_to_bundle: the path is recorded as given.
attach_external(project_id, src, file_size, file_hash) ==
    /\ attachments' = db_create_attachment(
          NewAttachment(project_id, src, SourcePath(src), file_size, file_hash, TRUE))
    /\ next_id' = next_id + 1
    /\ last' = Attached(project_id, src, FALSE, TRUE, "", next_id, None)
    /\ UNCHANGED <<fs, bundleDirs>>

\* An ingestion that gives up when the file cannot be hashed.
attach_file_needs_hash(project_id, src, copy_to_bundle) ==
    /\ next_id <= MaxAttachments
    /\ db_lock = 0
    /\ IF poisoned
       THEN /\ last' = Attached(project_id, src, copy_to_bundle, FALSE,
                                "poisoned lock", 0, None)
            /\ UNCHANGED <<fs, bundleDirs, attachments, next_id>>
       ELSE \E file_hash \in Hashes(SourcePath(src)) :
              LET file_size == FileSize(SourcePath(src)) IN
              IF file_hash = None
              THEN /\ last' = Attached(project_id, src, copy_to_bundle, FALSE,
                                       "Failed to hash file", 0, None)
                   /\ UNCHANGED <<fs, bundleDirs, attachments, next_id>>
              ELSE IF copy_to_bundle
              THEN copy_file_to_project_bundle(project_id, src, file_size, file_hash)
              ELSE attach_external(project_id, src, file_size, file_hash)
    /\ UNCHANGED <<content_locations, extractions, att>>
    /\ UNCHANGED <<gitVars, dbVars, callVars, envVars>>

\* lib.rs:564-617.  The lock on the store is held for the whole command.
attach_file(project_id, src, copy_to_bundle) ==
    /\ next_id <= MaxAttachments
    /\ db_lock = 0
    /\ IF poisoned
       THEN /\ last' = Attached(project_id, src, copy_to_bundle, FALSE,
                                "poisoned lock", 0, None)
            /\ UNCHANGED <<fs, bundleDirs, attachments, next_id>>
       ELSE \E file_hash \in Hashes(SourcePath(src)) :
              LET file_size == FileSize(SourcePath(src)) IN
              IF copy_to_bundle
              THEN copy_file_to_project_bundle(project_id, src, file_size, file_hash)
              ELSE attach_external(project_id, src, file_size, file_hash)
    /\ UNCHANGED <<content_locations, extractions, att>>
    /\ UNCHANGED <<gitVars, dbVars, callVars, envVars>>

Removed(id, delete_file, ok, err, unlink, unlinked) ==
    [op |-> "remove_attachment", project_id |-> 0, src |-> None, copy |-> FALSE,
     delete_file |-> delete_file, ok |-> ok, err |-> err, id |-> id,
     wrote |-> None, unlink |-> unlink, unlinked |-> unlinked]

\* A removal that unlinks the file of any attachment.
RemovesAnyFile(id, delete_file) ==
    delete_file /\ id \in DOMAIN attachments

\* lib.rs:660-669: the file is removed only when delete_file is given, the row
\* is found and it is not external.
RemovesFile(id, delete_file) ==
    delete_file /\ id \in DOMAIN attachments /\ ~attachments[id].is_external

\* lib.rs:657-672: the result of remove_file is dropped (let _ =); the row is
\* deleted whatever happened to the file.
remove_attachment(id, delete_file) ==
    /\ db_lock = 0
    /\ IF poisoned
       THEN /\ last' = Removed(id, delete_file, FALSE, "poisoned lock", None, FALSE)
            /\ UNCHANGED <<fs, attachments, content_locations, extractions>>
       ELSE LET tries == RemovesFile(id, delete_file) IN
            \E removed \in (IF tries /\ Exists(attachments[id].file_path)
                               THEN BOOLEAN ELSE {FALSE}) :
                 /\ fs' = (IF removed
                           THEN [x \in DOMAIN fs \ {attachments[id].file_path} |-> fs[x]]
                           ELSE fs)
                 /\ attachments' = db_delete_attachment(id)
                 /\ last' = Removed(id, delete_file, TRUE, "",
                                    IF tries THEN Some(attachments[id].file_path) ELSE None,
                                    removed)
                 /\ content_locations' = Owned(content_locations, id)
                 /\ extractions' = Owned(extractions, id)
    /\ UNCHANGED <<bundleDirs, next_id, att>>
    /\ UNCHANGED <<gitVars, dbVars, callVars, envVars>>

Indexed(name, attachment_id, ok, err) ==
    [op |-> name, project_id |-> 0, src |-> None, copy |-> FALSE,
     delete_file |-> FALSE, ok |-> ok, err |-> err, id |-> attachment_id,
     wrote |-> None, unlink |-> None, unlinked |-> FALSE]

\* database.rs:1176-1200: the rows after INSERT INTO content_locations.
db_create_content_location(attachment_id) ==
    Append(content_locations,
           [id |-> Len(content_locations) + 1, attachment_id |-> attachment_id])

\* database.rs:1246-1261: the rows after INSERT INTO extractions.
db_create_extraction(attachment_id) ==
    Append(extractions,
           [id |-> Len(extractions) + 1, attachment_id |-> attachment_id])

\* lib.rs:739-768.
create_content_location(attachment_id) ==
    /\ Len(content_locations) < MaxLocations
    /\ db_lock = 0
    /\ IF poisoned
       THEN /\ last' = Indexed("create_content_location", attachment_id, FALSE,
                               "poisoned lock")
            /\ UNCHANGED content_locations
       ELSE /\ content_locations' = db_create_content_location(attachment_id)
            /\ last' = Indexed("create_content_location", attachment_id, TRUE, "")
    /\ UNCHANGED <<fs, bundleDirs, attachments, next_id, extractions, att>>
    /\ UNCHANGED <<gitVars, dbVars, callVars, envVars>>

\* lib.rs:786-805.
create_extraction(attachment_id) ==
    /\ Len(extractions) < MaxExtractions
    /\ db_lock = 0
    /\ IF poisoned
       THEN /\ last' = Indexed("create_extraction", attachment_id, FALSE,
                               "poisoned lock")
            /\ UNCHANGED extractions
       ELSE /\ extractions' = db_create_extraction(attachment_id)
            /\ last' = Indexed("create_extraction", attachment_id, TRUE, "")
    /\ UNCHANGED <<fs, bundleDirs, attachments, next_id, content_locations, att>>
    /\ UNCHANGED <<gitVars, dbVars, callVars, envVars>>

\* ------------------------------------- lib.rs: attach_file, step by step
InFlight(project_id, src, copy_to_bundle, file_size, file_hash, dest) ==
    [project_id |-> project_id, src |-> src, copy |-> copy_to_bundle,
     file_size |-> file_size, file_hash |-> file_hash, dest |-> dest]

AttachSteps == {"mkdir", "copy", "insert"}

\* The command leaves: the guard of the mutex is dropped.
AttachReturns(c, r, l) ==
    /\ Finish(c, r)
    /\ last' = l
    /\ db_lock' = 0
    /\ att' = [att EXCEPT ![c] = NoAttach]

\* An ingestion that does not wait for the mutex.
AttachLockFree(c, project_id, src, copy_to_bundle) ==
    /\ pc[c] = "idle"
    /\ serial => (AllIdle /\ c = 1)
    /\ next_id <= MaxAttachments
    /\ op' = [op EXCEPT ![c] = "attach_file"]
    /\ pre' = [pre EXCEPT ![c] = Snapshot]
    /\ made' = [made EXCEPT ![c] = 0]
    /\ failed' = [failed EXCEPT ![c] = {}]
    /\ cmds' = [cmds EXCEPT ![c] = <<>>]
    /\ \E file_hash \in Hashes(SourcePath(src)) :
         /\ db_lock' = c
         /\ att' = [att EXCEPT ![c] =
               InFlight(project_id, src, copy_to_bundle,
                        FileSize(SourcePath(src)), file_hash, None)]
         /\ pc' = [pc EXCEPT ![c] = IF copy_to_bundle THEN "mkdir" ELSE "insert"]
         /\ UNCHANGED <<result, last>>
    /\ UNCHANGED <<gitVars, sync_status, sync_history, poisoned, nextDevice,
                   has_changes, envVars, fs, bundleDirs, attachments, next_id,
                   content_locations, extractions>>

\* lib.rs:573-591: state.db.lock() waits for the mutex (an error when it is
\* poisoned); then the file name, the size and the hash are read.
AttachLock(c, project_id, src, copy_to_bundle) ==
    /\ pc[c] = "idle"
    /\ serial => (AllIdle /\ c = 1)
    /\ next_id <= MaxAttachments
    /\ db_lock = 0
    /\ op' = [op EXCEPT ![c] = "attach_file"]
    /\ pre' = [pre EXCEPT ![c] = Snapshot]
    /\ made' = [made EXCEPT ![c] = 0]
    /\ failed' = [failed EXCEPT ![c] = {}]
    /\ cmds' = [cmds EXCEPT ![c] = <<>>]
    /\ IF poisoned
       THEN /\ Finish(c, LockErr)
            /\ last' = Attached(project_id, src, copy_to_bundle, FALSE,
                                "poisoned lock", 0, None)
            /\ UNCHANGED <<db_lock, att>>
       ELSE \E file_hash \in Hashes(SourcePath(src)) :
              /\ db_lock' = c
              /\ att' = [att EXCEPT ![c] =
                    InFlight(project_id, src, copy_to_bundle,
                             FileSize(SourcePath(src)), file_hash, None)]
              /\ pc' = [pc EXCEPT ![c] = IF copy_to_bundle THEN "mkdir" ELSE "insert"]
              /\ UNCHANGED <<result, last>>
    /\ UNCHANGED <<gitVars, sync_status, sync_history, poisoned, nextDevice,
                   has_changes, envVars, fs, bundleDirs, attachments, next_id,
                   content_locations, extractions>>

\* lib.rs:1297-1326: create_dir_all, then the first name that does not exist.
AttachDest(c) ==
    /\ pc[c] = "mkdir"
    /\ LET a == att[c] IN
       \/ /\ AttachReturns(c, Err("Failed to create attachments directory"),
                           Attached(a.project_id, a.src, TRUE, FALSE,
                                    "Failed to create attachments directory", 0, None))
          /\ UNCHANGED bundleDirs
       \/ /\ bundleDirs' = bundleDirs \cup {a.project_id}
          /\ att' = [att EXCEPT ![c].dest = Some(DestPath(a.src, a.project_id))]
          /\ pc' = [pc EXCEPT ![c] = "copy"]
          /\ UNCHANGED <<result, last, db_lock>>
    /\ UNCHANGED <<gitVars, sync_status, sync_history, poisoned, nextDevice,
                   op, has_changes, cmds, made, pre, failed, envVars, fs,
                   attachments, next_id, content_locations, extractions>>

\* lib.rs:1328-1331: std::fs::copy writes the destination, whether or not a
\* file is there by now.
AttachCopy(c) ==
    /\ pc[c] = "copy"
    /\ LET a == att[c]
           dest == CHOOSE p \in a.dest : TRUE IN
       \/ /\ AttachReturns(c, Err("Failed to copy file"),
                           Attached(a.project_id, a.src, TRUE, FALSE,
                                    "Failed to copy file", 0, None))
          /\ UNCHANGED fs
       \/ /\ Exists(SourcePath(a.src))
          /\ fs' = (dest :> fs[SourcePath(a.src)]) @@ fs
          /\ pc' = [pc EXCEPT ![c] = "insert"]
          /\ UNCHANGED <<result, last, db_lock, att>>
    /\ UNCHANGED <<gitVars, sync_status, sync_history, poisoned, nextDevice,
                   op, has_changes, cmds, made, pre, failed, envVars, bundleDirs,
                   attachments, next_id, content_locations, extractions>>

\* lib.rs:594-616: the row is inserted and returned.
AttachInsert(c) ==
    /\ pc[c] = "insert"
    /\ LET a == att[c]
           row == NewAttachment(a.project_id, a.src,
                                IF a.copy THEN CHOOSE p \in a.dest : TRUE
                                ELSE SourcePath(a.src),
                                a.file_size, a.file_hash, ~a.copy) IN
       /\ attachments' = db_create_attachment(row)
       /\ next_id' = next_id + 1
       /\ AttachReturns(c, [ok |-> TRUE, status |-> "attachment", row |-> row],
                        Attached(a.project_id, a.src, a.copy, TRUE, "", next_id,
                                 IF a.copy THEN a.dest ELSE None))
    /\ UNCHANGED <<gitVars, sync_status, sync_history, poisoned, nextDevice,
                   op, has_changes, cmds, made, pre, failed, envVars, fs,
                   bundleDirs, content_locations, extractions>>

\* --------------------------------------------------------- specifications
HistoryRows ==
    [device_id : {1}, operation : {"sync", "init"}, commit_hash : {None},
     files_changed : {None}, status : {"committed_local_only", "error"},
     error_message : {None}]

Updates ==
    [remote_url : {None, Some("u1")}, last_sync_at : {None, Some("t1")},
     last_sync_commit : {None, Some("h1")}, pending_changes : {None, Some(1)},
     has_conflicts : {None, Some(TRUE)}]

\* The row the shell records for a local-only sync.
LoggedSync ==
    [device_id |-> 1, operation |-> "sync", commit_hash |-> None,
     files_changed |-> None, status |-> "committed_local_only",
     error_message |-> None]

\* The commands of the sync coordinator, the edits of the tree and the record
\* the shell may keep of an operation.
Next ==
    \/ \E c \in Callers : git_init(c)
    \/ \E c \in Callers : git_status(c)
    \/ \E c \in Callers, url \in Urls : git_set_remote(c, url)
    \/ \E c \in Callers, url \in Urls : git_clone(c, url)
    \/ \E c \in Callers, limit \in 1..2 : git_history(c, limit)
    \/ \E c \in Callers : SyncCheck(c)
    \/ \E c \in Callers : SyncAdd(c)
    \/ \E c \in Callers : SyncStatus(c)
    \/ \E c \in Callers : SyncCommit(c)
    \/ \E c \in Callers : SyncRemote(c)
    \/ \E c \in Callers : SyncPull(c)
    \/ \E c \in Callers : SyncPush(c)
    \/ \E c \in Callers : log_sync_operation(c, LoggedSync)
    \/ \E c \in Callers : Return(c)
    \/ \E f \in Files, v \in Content : EditFile(f, v)
    \/ \E v \in Content : OtherDevicePush(v)

\* Commands are invoked one at a time.
Spec == Init /\ [][Next]_vars

\* git_sync invoked from concurrent threads on a repository that git_init and
\* git_set_remote have set up.
InitConc ==
    /\ wt = [f \in Files |-> 1]
    /\ gitDir = TRUE
    /\ index = [f \in Files |-> 1]
    /\ unmerged = {}
    /\ commits = <<[parent |-> 0, tree |-> [f \in Files |-> 1]]>>
    /\ localObjs = {1}
    /\ head = 1
    /\ branch = 1
    /\ rebasing = FALSE
    /\ remoteUrl = "u1"
    /\ remoteHead = 0
    /\ remotePushes = 0
    /\ edits = 0
    /\ serial = FALSE
    /\ sync_status = <<>>
    /\ sync_history = <<>>
    /\ poisoned = FALSE
    /\ db_lock = 0
    /\ nextDevice = 0
    /\ pc = [c \in Callers |-> "idle"]
    /\ op = [c \in Callers |-> "none"]
    /\ result = [c \in Callers |-> NoCall]
    /\ has_changes = [c \in Callers |-> FALSE]
    /\ cmds = [c \in Callers |-> <<>>]
    /\ made = [c \in Callers |-> 0]
    /\ pre = [c \in Callers |-> NoPre]
    /\ failed = [c \in Callers |-> {}]
    /\ InitAttachments

NextConc ==
    \/ \E c \in Callers : SyncCheck(c)
    \/ \E c \in Callers : SyncAdd(c)
    \/ \E c \in Callers : SyncStatus(c)
    \/ \E c \in Callers : SyncCommit(c)
    \/ \E c \in Callers : SyncRemote(c)
    \/ \E c \in Callers : SyncPull(c)
    \/ \E c \in Callers : SyncPush(c)
    \/ \E c \in Callers : Return(c)
    \/ \E v \in Content : EditFile("db", v)
    \/ \E v \in Content : OtherDevicePush(v)

SpecConc == InitConc /\ [][NextConc]_vars

\* The commands of the record store.
NextStore ==
    \/ \E c \in Callers : get_sync_status(c)
    \/ \E c \in Callers : init_sync_status(c, "laptop")
    \/ \E c \in Callers, u \in Updates : update_sync_status(c, u)
    \/ \E c \in Callers, limit \in 1..2 : get_sync_history(c, limit)
    \/ \E c \in Callers, row \in HistoryRows : log_sync_operation(c, row)
    \/ \E c \in Callers : Return(c)

SpecStore == Init /\ [][NextStore]_vars

\* The commands of the attachment store.
NextAttach ==
    \/ \E project_id \in Projects, src \in Sources, copy_to_bundle \in BOOLEAN :
         attach_file(project_id, src, copy_to_bundle)
    \/ \E id \in 1..MaxAttachments, delete_file \in BOOLEAN :
         remove_attachment(id, delete_file)

SpecAttach == Init /\ [][NextAttach]_vars

\* The attachment store with the rows the indexing collaborator derives from
\* a stored attachment.
NextIndex ==
    \/ \E src \in Sources : attach_file(1, src, FALSE)
    \/ \E id \in 1..MaxAttachments, delete_file \in BOOLEAN :
         remove_attachment(id, delete_file)
    \/ \E attachment_id \in DOMAIN attachments :
         create_content_location(attachment_id)
    \/ \E attachment_id \in DOMAIN attachments :
         create_extraction(attachment_id)

SpecIndex == Init /\ [][NextIndex]_vars

\* Ingestion from concurrent threads while another thread synchronizes and
\* records the sync, on a repository that git_init has set up, that has no
\* remote and whose database file has changed since the last commit.
InitLock ==
    /\ wt = [f \in Files |-> IF f = "db" THEN 2 ELSE 1]
    /\ gitDir = TRUE
    /\ index = [f \in Files |-> 1]
    /\ unmerged = {}
    /\ commits = <<[parent |-> 0, tree |-> [f \in Files |-> 1]]>>
    /\ localObjs = {1}
    /\ head = 1
    /\ branch = 1
    /\ rebasing = FALSE
    /\ remoteUrl = NoUrl
    /\ remoteHead = 0
    /\ remotePushes = 0
    /\ edits = 0
    /\ serial = FALSE
    /\ sync_status = <<>>
    /\ sync_history = <<>>
    /\ poisoned = FALSE
    /\ db_lock = 0
    /\ nextDevice = 0
    /\ pc = [c \in Callers |-> "idle"]
    /\ op = [c \in Callers |-> "none"]
    /\ result = [c \in Callers |-> NoCall]
    /\ has_changes = [c \in Callers |-> FALSE]
    /\ cmds = [c \in Callers |-> <<>>]
    /\ made = [c \in Callers |-> 0]
    /\ pre = [c \in Callers |-> NoPre]
    /\ failed = [c \in Callers |-> {}]
    /\ InitAttachments

NextLock ==
    \/ \E c \in Callers, copy_to_bundle \in BOOLEAN :
         AttachLock(c, 1, SourceOf(c), copy_to_bundle)
    \/ \E c \in Callers : AttachDest(c)
    \/ \E c \in Callers : AttachCopy(c)
    \/ \E c \in Callers : AttachInsert(c)
    \/ SyncCheck(1)
    \/ SyncAdd(1)
    \/ SyncStatus(1)
    \/ SyncCommit(1)
    \/ SyncRemote(1)
    \/ log_sync_operation(1, LoggedSync)
    \/ \E c \in Callers : Return(c)

SpecLock == InitLock /\ [][NextLock]_vars

\* git_sync on a repository with a remote, while the data and the remote
\* change.
NextLive ==
    \/ SyncCheck(1)
    \/ SyncAdd(1)
    \/ SyncStatus(1)
    \/ SyncCommit(1)
    \/ SyncRemote(1)
    \/ SyncPull(1)
    \/ SyncPush(1)
    \/ Return(1)
    \/ \E v \in Content : EditFile("db", v)
    \/ \E v \in Content : OtherDevicePush(v)

\* Every command git_sync spawns returns: .output() waits for the child, and
\* the statement after it is then executed.
SyncProgress ==
    \A c \in Callers :
      /\ WF_vars(SyncAdd(c))
      /\ WF_vars(SyncStatus(c))
      /\ WF_vars(SyncCommit(c))
      /\ WF_vars(SyncRemote(c))
      /\ WF_vars(SyncPull(c))
      /\ WF_vars(SyncPush(c))

SpecLive == InitConc /\ [][NextLive]_vars /\ SyncProgress


\* ------------------------------------------------------------------ claims
SyncDone(c) == pc[c] = "done" /\ op[c] = "sync"

Before(c, i, cmd) == \E j \in 1..(i - 1) : cmds[c][j] = cmd

\* C1: in every git_sync the local commit step (git add, then git commit when
\* the tree is dirty) has completed before pull or push is issued, and the
\* commit the call created is still in the local repository when it returns:
\* in the object store, and reachable from main or HEAD when the pull failed
\* or conflicted.
C1_CommitBeforeRemote ==
    \A c \in Callers : op[c] = "sync" =>
      /\ \A i \in 1..Len(cmds[c]) : cmds[c][i] \in {"pull", "push"} =>
           /\ Before(c, i, "add") /\ Before(c, i, "status")
           /\ failed[c] \cap {"add", "commit"} = {}
           /\ has_changes[c] => (Before(c, i, "commit") /\ made[c] # 0)
      /\ (pc[c] = "done" /\ made[c] # 0) =>
           /\ made[c] \in localObjs
           /\ ("pull" \in failed[c] \/ result[c].status = "conflict")
                => made[c] \in Ancestors(branch) \cup Ancestors(head)

C1_Witness ==
    \E c \in Callers : SyncDone(c) /\ made[c] # 0 /\ "push" \in failed[c]
                        /\ result[c].status = "synced"

\* C2: git_sync on a path without .git returns the not-initialized error,
\* issues no git command and changes neither the tree, the repository nor the
\* store.
C2_UninitializedSyncIsNoOp ==
    [][\A c \in Callers :
         (pc[c] = "idle" /\ op'[c] = "sync" /\ ~gitDir) =>
            /\ pc'[c] = "done"
            /\ result'[c] = Err("not_initialized")
            /\ cmds'[c] = <<>>
            /\ UNCHANGED <<gitVars, dbVars>>]_vars

C2_Witness ==
    \E c \in Callers : SyncDone(c) /\ result[c].status = "not_initialized"
                        /\ wt # EmptyTree

\* C3: when the pull of git_sync conflicts, git_status right afterwards still
\* reports the commit made in that call as the last commit.
C3_ConflictKeepsLastCommit ==
    \A c \in Callers :
      (SyncDone(c) /\ result[c].status = "conflict" /\ made[c] # 0)
        => StatusReport.last_commit = made[c]

\* C4: a pull that stops on a conflict ends the call: the result is the
\* conflict variant, with a committed flag and no pushed field, and no push
\* was issued.
C4_ConflictStops ==
    /\ [][\A c \in Callers :
            (pc[c] = "pull" /\ ~rebasing /\ rebasing') =>
               (pc'[c] = "done" /\ result'[c].status = "conflict")]_vars
    /\ [](\A c \in Callers :
            (SyncDone(c) /\ result[c].status = "conflict") =>
               /\ \A i \in 1..Len(cmds[c]) : cmds[c][i] # "push"
               /\ DOMAIN result[c] = {"ok", "status", "committed"}
               /\ result[c].committed = has_changes[c])

C4_Witness ==
    \E c \in Callers : SyncDone(c) /\ result[c].status = "conflict" /\ rebasing

GitOps == {"init", "status", "set_remote", "sync", "clone", "history"}

RowAppended(c) ==
    /\ Len(sync_history) = pre[c].nhist + 1
    /\ sync_history[Len(sync_history)].operation = op[c]

\* C5: every sync-coordinator operation that succeeds has appended exactly one
\* sync_history row for it (for a local-only sync: operation sync, status
\* committed_local_only) and refreshed the sync_status row.
C5_SuccessIsLogged ==
    \A c \in Callers :
      (pc[c] = "done" /\ op[c] \in GitOps /\ result[c].ok) =>
         /\ RowAppended(c)
         /\ result[c].status = "committed_local" =>
              sync_history[Len(sync_history)].status = "committed_local_only"
         /\ \A i \in 1..Len(sync_status) :
              sync_status[i].pending_changes = PorcelainLines

\* C6: every sync-coordinator operation that fails has appended a
\* sync_history row for the failed operation before it returns the error.
C6_FailureIsLogged ==
    \A c \in Callers :
      (pc[c] = "done" /\ op[c] \in GitOps /\ ~result[c].ok) => RowAppended(c)

\* Between its first and its last version-control command.
MidSync(c) == op[c] = "sync" /\ pc[c] \notin {"idle", "done"} /\ Len(cmds[c]) > 0

\* C7: the command sequences of two git_sync calls on the same working tree
\* never overlap.
C7_SyncsNeverOverlap ==
    \A c, d \in Callers : (c # d /\ MidSync(c)) => ~MidSync(d)

C9_InitIdempotent ==
    [][\A c \in Callers :
         (pc[c] = "idle" /\ op'[c] = "init" /\ gitDir) =>
            /\ result'[c] = [ok |-> TRUE, status |-> "already_initialized"]
            /\ cmds'[c] = <<>>
            /\ UNCHANGED <<gitVars, dbVars>>]_vars

C9_Witness ==
    \E c \in Callers :
      /\ pc[c] = "done" /\ op[c] = "init"
      /\ result[c].status = "already_initialized"
      /\ wt["gitignore"] # GeneratedIgnore /\ head # 0

C12_PushFailureIsNotAnError ==
    \A c \in Callers : SyncDone(c) =>
      /\ Issued(c, "push") =>
           /\ result[c].ok /\ result[c].status = "synced"
           /\ result[c].pushed <=> "push" \notin failed[c]
           /\ result[c].pushed => remoteHead = branch
           /\ result[c].committed = has_changes[c]
      /\ (pre[c].remote /\ Issued(c, "remote get-url")
            /\ "remote get-url" \notin failed[c] /\ result[c].status # "conflict")
           => Issued(c, "push")

C12_Witness ==
    \E c \in Callers :
      /\ SyncDone(c) /\ pre[c].remote /\ has_changes[c] /\ made[c] # 0
      /\ "push" \in failed[c] /\ "pull" \notin failed[c]
      /\ result[c].ok /\ ~result[c].pushed


NoRemoteCommand(c) == ~Issued(c, "pull") /\ ~Issued(c, "push")

Cloning(c) == pc[c] = "idle" /\ op'[c] = "clone"

C15_StatusIsPureRead ==
    [][\A c \in Callers : (pc[c] = "idle" /\ op'[c] = "status") =>
         /\ UNCHANGED <<gitVars, dbVars>>
         /\ ~gitDir =>
              /\ result'[c] = [ok |-> TRUE, status |-> "not_initialized",
                               initialized |-> FALSE]
              /\ cmds'[c] = <<>>
         /\ (gitDir /\ result'[c].ok) => result'[c].initialized]_vars

C15_Witness ==
    \E c \in Callers :
      /\ pc[c] = "done" /\ op[c] = "status" /\ result[c].ok
      /\ rebasing /\ unmerged # {} /\ remoteUrl # NoUrl
      /\ result[c].pending_changes > 0


\* C16: git_set_remote on an initialized repository that succeeds has added
\* the remote and says "added" when none was configured, has updated it and
\* says "updated" when one was; the configured url is then the url given, and
\* nothing else of the repository changed.  A call that fails changes nothing.
C16_SetRemoteAddsOrUpdates ==
    [][\A c \in Callers : (pc[c] = "idle" /\ op'[c] = "set_remote" /\ gitDir) =>
         IF result'[c].ok
         THEN /\ result'[c].action = (IF remoteUrl = NoUrl THEN "added" ELSE "updated")
              /\ cmds'[c][2] = (IF remoteUrl = NoUrl THEN "remote add" ELSE "remote set-url")
              /\ remoteUrl' = result'[c].remote_url
              /\ remoteUrl' \in Urls
              /\ UNCHANGED <<wt, gitDir, index, unmerged, commits, localObjs,
                             head, branch, rebasing, remoteHead, remotePushes>>
         ELSE UNCHANGED gitVars]_vars

C16_Witness ==
    \E c \in Callers :
      /\ pc[c] = "done" /\ op[c] = "set_remote" /\ result[c].ok
      /\ pre[c].remote /\ result[c].action = "updated"
      /\ remoteUrl = "u2"


InBundle(row) == row.file_path.dir = BundleDir(row.project_id)

Ingested == last.op = "attach_file" /\ last.ok

\* C17: every attachment that is not external has its file_path in the bundle
\* directory of its project; an ingestion that copies stores is_external =
\* false and such a path (where the copy now is), one that does not copy
\* stores is_external = true and the source path.
C17_BundledPathsAreInTheBundle ==
    /\ \A id \in DOMAIN attachments :
         ~attachments[id].is_external => InBundle(attachments[id])
    /\ Ingested =>
         LET row == attachments[last.id] IN
         /\ last.id \in DOMAIN attachments
         /\ row.project_id = last.project_id
         /\ row.is_external = ~last.copy
         /\ last.copy => (InBundle(row) /\ last.wrote = Some(row.file_path)
                            /\ Exists(row.file_path))
         /\ ~last.copy => row.file_path = SourcePath(last.src)

C17_Witness ==
    /\ Ingested /\ last.copy /\ last.project_id = 2
    /\ \E id \in DOMAIN attachments : attachments[id].is_external
    /\ \E id \in DOMAIN attachments :
         ~attachments[id].is_external /\ attachments[id].project_id = 1

\* The names copy_file_to_project_bundle found taken before it wrote `name`.
TakenBefore(src, name) ==
    IF name = FileName(src) THEN {}
    ELSE LET k == CHOOSE n \in 1..(MaxAttachments + 1) : Numbered(src, n) = name
         IN {FileName(src)} \cup {Numbered(src, j) : j \in 1..(k - 1)}

\* C18: an ingestion that copies never overwrites: it writes a file that did
\* not exist, named as the source or, when that name is taken, with the
\* smallest free suffix _1, _2, ... before the extension; every file that
\* existed keeps its content; and the bundled attachments have pairwise
\* distinct paths.
C18_CopyNeverOverwrites ==
    /\ [][(last' # last /\ last'.op = "attach_file") =>
            /\ \A path \in DOMAIN fs : Exists(path)' /\ fs'[path] = fs[path]
            /\ (last'.ok /\ last'.copy) =>
                 \E dest \in last'.wrote :
                   /\ ~Exists(dest)
                   /\ DOMAIN fs' = DOMAIN fs \cup {dest}
                   /\ fs'[dest] = fs[SourcePath(last'.src)]
                   /\ dest.name \in {FileName(last'.src)} \cup
                        {Numbered(last'.src, n) : n \in 1..(MaxAttachments + 1)}
                   /\ \A taken \in TakenBefore(last'.src, dest.name) :
                        Exists([dir |-> dest.dir, name |-> taken])]_vars
    /\ [](\A i, j \in DOMAIN attachments :
            (i # j /\ ~attachments[i].is_external /\ ~attachments[j].is_external)
              => attachments[i].file_path # attachments[j].file_path)

C18_Witness ==
    /\ Ingested /\ last.copy
    /\ \E dest \in last.wrote : dest.name = "a_2.txt" /\ fs[dest] = 2
    /\ Cardinality(DOMAIN attachments) = 3

\* C19: attach_file of a source that does not exist returns an error and
\* leaves no attachment row for it, with and without copy_to_bundle.
C19_MissingSourceIsNotFound ==
    (last.op = "attach_file" /\ ~Exists(SourcePath(last.src))) =>
       /\ ~last.ok
       /\ \A id \in DOMAIN attachments :
            attachments[id].file_name # FileName(last.src)

\* C20: remove_attachment never tries to delete the file of an external
\* attachment, whatever delete_file is; for an attachment in the bundle with
\* delete_file it tries, and the row is removed whether the file went or not;
\* no other file is touched.
C20_RemoveSparesExternalFiles ==
    [][(last' # last /\ last'.op = "remove_attachment" /\ last'.ok) =>
         LET id == last'.id
             found == id \in DOMAIN attachments
         IN
         /\ id \notin DOMAIN attachments'
         /\ \A other \in DOMAIN attachments \ {id} :
              other \in DOMAIN attachments' /\ attachments'[other] = attachments[other]
         /\ (found /\ attachments[id].is_external) =>
              (last'.unlink = None /\ fs' = fs)
         /\ (found /\ ~attachments[id].is_external /\ last'.delete_file) =>
              last'.unlink = Some(attachments[id].file_path)
         /\ (~found \/ ~last'.delete_file) => (last'.unlink = None /\ fs' = fs)
         /\ \A path \in DOMAIN fs :
              (Some(path) # last'.unlink \/ ~last'.unlinked)
                => (Exists(path)' /\ fs'[path] = fs[path])]_vars

C20_Witness ==
    /\ last.op = "remove_attachment" /\ last.ok /\ last.delete_file
    /\ last.id \notin DOMAIN attachments
    /\ \E path \in last.unlink : ~last.unlinked /\ Exists(path)
    /\ \E id \in DOMAIN attachments : attachments[id].is_external

\* ---------------------------------------------------------------- C21
\* C21: in every state reached after a successful remove_attachment(id), no
\* content_locations row and no extractions row references the removed id.
C21_RemoveLeavesNoOrphans ==
    (last.op = "remove_attachment" /\ last.ok) =>
       /\ \A i \in 1..Len(content_locations) :
             content_locations[i].attachment_id # last.id
       /\ \A i \in 1..Len(extractions) :
             extractions[i].attachment_id # last.id

\* ---------------------------------------------------------------- C22
\* C22: a pull of git_sync that fails without a conflict (it does not start, or
\* exits non-zero with no conflict reported) does not end the call: the push
\* is the next command issued, and the call returns the synced result, never an
\* error.
C22_PullFailureIsIgnored ==
    \A c \in Callers : (op[c] = "sync" /\ "pull" \in failed[c]) =>
      /\ pc[c] \in {"push", "done"}
      /\ pc[c] = "push" => cmds[c][Len(cmds[c])] = "pull"
      /\ pc[c] = "done" =>
           /\ result[c].ok /\ result[c].status = "synced"
           /\ Len(cmds[c]) >= 2
           /\ cmds[c][Len(cmds[c])] = "push"
           /\ cmds[c][Len(cmds[c]) - 1] = "pull"
           /\ result[c].pushed <=> "push" \notin failed[c]

C22_Witness ==
    \E c \in Callers :
      /\ SyncDone(c) /\ "pull" \in failed[c] /\ "push" \notin failed[c]
      /\ result[c].status = "synced" /\ result[c].pushed

\* ---------------------------------------------------------------- C23
\* C23: when git_init on a path without .git returns `initialized`, the
\* repository exists, the generated ignore-list is staged and an initial commit
\* holding it is HEAD, so that git_status has a last commit to report.
C23_InitializedHasInitialCommit ==
    \A c \in Callers :
      (pc[c] = "done" /\ op[c] = "init" /\ result[c].status = "initialized") =>
        /\ gitDir
        /\ index["gitignore"] = GeneratedIgnore
        /\ head # 0
        /\ TreeOf(head)["gitignore"] = GeneratedIgnore

\* ---------------------------------------------------------------- C24
\* C24: hashing never aborts attach_file.  The only errors it returns come from
\* the lock, the creation of the bundle directory and the copy; an ingestion
\* that does not copy always succeeds once the lock is held; and a successful
\* ingestion has persisted its row, the file_hash being the digest of the
\* source or absent.
C24_HashFailureDoesNotAbort ==
    last.op = "attach_file" =>
      /\ ~last.ok => last.err \in {"poisoned lock", "Failed to copy file",
                                    "Failed to create attachments directory"}
      /\ ~last.copy => (last.ok \/ last.err = "poisoned lock")
      /\ last.ok =>
           /\ last.id \in DOMAIN attachments
           /\ attachments[last.id].file_hash \in Hashes(SourcePath(last.src))

\* The size was read and the copy made, the hash could not be computed.
C24_Witness ==
    /\ Ingested /\ last.copy /\ last.wrote # None
    /\ Exists(SourcePath(last.src))
    /\ attachments[last.id].file_size # None
    /\ attachments[last.id].file_hash = None

\* ---------------------------------------------------------------- C25
StoreOps == {"get_sync_status", "init_sync_status", "update_sync_status",
             "get_sync_history", "log_sync_operation", "attach_file"}

\* The caller whose command takes this step.
Acts(c) == pc'[c] # pc[c]

\* C25: the mutex of the store is never held by a caller that runs a git
\* command: whoever holds it is inside attach_file, a step that spawns git is
\* taken by a caller that does not hold it, a store command starts only when
\* the mutex is free, and the rows of the store (sync_status, sync_history,
\* attachments) change only in a step of the caller that holds the mutex or
\* takes and releases it within the step.
C25_LockNeverHeldAcrossGit ==
    /\ [](db_lock # 0 =>
            (op[db_lock] = "attach_file" /\ pc[db_lock] \in AttachSteps))
    /\ [][\A c \in Callers :
            /\ (Acts(c) /\ cmds'[c] # <<>> /\ cmds'[c] # cmds[c])
                  => (db_lock # c /\ db_lock' # c /\ op'[c] \in GitOps)
            /\ (Acts(c) /\ pc[c] = "idle" /\ op'[c] \in StoreOps)
                  => db_lock = 0
            /\ (Acts(c) /\ <<sync_status, sync_history, attachments>>' #
                             <<sync_status, sync_history, attachments>>)
                  => (op'[c] \in StoreOps /\ db_lock \in {0, c})]_vars

\* A git command of one thread's sync has run while another thread holds the
\* mutex, and the sync was recorded.
C25_Witness ==
    /\ op[1] = "sync" /\ pc[1] = "commit" /\ Issued(1, "status")
    /\ db_lock = 2 /\ pc[2] = "copy"
    /\ Len(sync_history) > 0

\* ---------------------------------------------------------------- C26
RemoteCommands == {"remote get-url", "pull", "push"}

\* The commit made by the call is not empty.
MadeIsNotEmpty(c) ==
    made[c] # 0 => commits[made[c]].tree # TreeOf(commits[made[c]].parent)

\* The flag of a returned result is whether the call created a commit.
FlagIsCommit(c) ==
    (result[c].ok /\ result[c].status # "not_initialized") =>
       (result[c].committed <=> made[c] # 0)

\* A failure of add or commit is an error, and nothing is asked of the remote.
LocalFailureStops(c) ==
    (failed[c] \cap {"add", "commit"} # {}) =>
       /\ ~result[c].ok
       /\ \A i \in 1..Len(cmds[c]) : cmds[c][i] \notin RemoteCommands

Bundled == {id \in DOMAIN attachments : ~attachments[id].is_external}

\* C27: attach_file calls of concurrent threads for files of the same name in
\* one project never write the same destination.  At most one call is between
\* the lock and its return, it holds the mutex, no two bundled rows have the
\* same path, and the file of a bundled row holds the content its call hashed.
C27_ConcurrentCopiesDoNotCollide ==
    /\ \A c, d \in Callers :
         (c # d /\ pc[c] \in AttachSteps) => pc[d] \notin AttachSteps
    /\ \A c \in Callers : pc[c] \in AttachSteps => db_lock = c
    /\ \A i, j \in Bundled :
         i # j => attachments[i].file_path # attachments[j].file_path
    /\ \A i \in Bundled :
         /\ Exists(attachments[i].file_path)
         /\ attachments[i].file_hash \in
              {None, Some(fs[attachments[i].file_path])}

\* Both threads have stored their file of the same name in the project; one
\* of them waited for the other's copy.
C27_Witness ==
    \E i, j \in Bundled :
      /\ i # j
      /\ attachments[i].file_name = attachments[j].file_name
      /\ attachments[i].project_id = attachments[j].project_id
      /\ attachments[i].file_path.name = "a.txt"
      /\ attachments[j].file_path.name = "a_1.txt"
      /\ fs[attachments[i].file_path] # fs[attachments[j].file_path]

\* ---------------------------------------------------------------- C28
\* The files of the bundle directories, and the paths the rows record.
BundleFiles ==
    {p \in DOMAIN fs : \E project_id \in Projects : p.dir = BundleDir(project_id)}

Recorded == {attachments[id].file_path : id \in DOMAIN attachments}

\* C28: the `git add .` of git_sync never runs between the copy of a file into
\* the bundle and the insertion of its row: whenever it stages the data
\* directory, every file of the bundle has its row in the database, so that
\* the commit made of the staged snapshot holds no file without its row.
C28_StagedSnapshotIsConsistent ==
    [][\A c \in Callers :
         (pc[c] = "add" /\ pc'[c] = "status") =>
            /\ \A d \in Callers : ~(pc[d] = "insert" /\ att[d].copy)
            /\ BundleFiles \subseteq Recorded]_vars

\* ---------------------------------------------------------------- C29
\* C29: update_sync_status called while sync_status has no row returns an
\* error value, creates no row and leaves the mutex usable: get_sync_status
\* and init_sync_status succeed afterwards.
C29_UpdateWithoutRowIsAnError ==
    \A c \in Callers :
      /\ (pc[c] = "done" /\ op[c] = "update_sync_status"
            /\ Len(sync_status) = 0) =>
           (~result[c].ok /\ result[c] # Panicked /\ ~poisoned)
      /\ (pc[c] = "done" /\ op[c] \in {"get_sync_status", "init_sync_status"}) =>
           result[c] # LockErr

\* ---------------------------------------------------------------- C30
SyncCommands == {"add", "status", "commit", "remote get-url", "pull", "push"}

SyncOutcomes == {"committed_local", "conflict", "synced"}

\* C30: when every spawned command returns, a git_sync call that has started
\* returns, with an error or with exactly one of committed_local, conflict
\* and synced; while it runs it has issued each of its six commands at most
\* once, and what it leaves behind when it returns is that outcome.
C30_SyncTerminates ==
    /\ [](\A c \in Callers : op[c] = "sync" =>
            /\ \A i \in 1..Len(cmds[c]) :
                 /\ cmds[c][i] \in SyncCommands
                 /\ ~Before(c, i, cmds[c][i])
            /\ pc[c] = "done" =>
                 (result[c].ok <=> result[c].status \in SyncOutcomes))
    /\ \A c \in Callers :
         (op[c] = "sync" /\ pc[c] # "done") ~> SyncDone(c)

\* A call that has run all six commands and returns synced.
C30_Witness ==
    /\ SyncDone(1) /\ result[1].status = "synced"
    /\ cmds[1] = <<"add", "status", "commit", "remote get-url", "pull", "push">>

=============================================================================
